---- MODULE Spec2Model ----
(***************************************************************************)
(* Model of src/main.py (Derek Dashboard): the module-level core           *)
(* initialization, DerekDashboard (__init__, start, process_message, stop) *)
(* and the interaction loop of main().                                     *)
(*                                                                         *)
(* Texts are sequences of one-character strings, so that lower(), strip(), *)
(* the substring test and the [:50] slices are computed as Python does.    *)
(* A subsystem handle is modelled by its presence (TRUE) or absence        *)
(* (FALSE = None).  Every call into a collaborator (constructor, think,    *)
(* store, save, speak, listen, recognize_google, input) has its outcome    *)
(* chosen by the environment.                                              *)
(***************************************************************************)
EXTENDS Integers, Sequences, FiniteSets, TLC

(***************************************************************************)
(* Bounds of the model.                                                    *)
(***************************************************************************)
\* loop iterations that continue (a dispatched turn or a recognition error)
MaxTurns == 2
\* number of audio devices list_microphone_names() may report
MaxMics == 3
\* length of the long utterance and the long reply (beyond the 50 slice)
LongLen == 53

(***************************************************************************)
(* Fixed texts of the program.                                             *)
(***************************************************************************)
NOT_READY == <<"S", "y", "s", "t", "e", "m", " ", "n", "o", "t", " ", "r", "e", "a", "d", "y", ".">>
NO_OUTPUT == <<"[", "N", "o", " ", "o", "u", "t", "p", "u", "t", "]">>
ERROR_REPLY == <<"E", "r", "r", "o", "r", " ", "p", "r", "o", "c", "e", "s", "s", "i", "n", "g", " ", "m", "e", "s", "s", "a", "g", "e", ".">>
FAREWELL == <<"G", "o", "o", "d", "b", "y", "e", "!", " ", "S", "e", "e", " ", "y", "o", "u", " ", "n", "e", "x", "t", " ", "t", "i", "m", "e", ".">>
GREETING == <<"H", "e", "l", "l", "o", ",", " ", "I", " ", "a", "m", " ", "D", "e", "r", "e", "k", ",", " ", "r", "e", "a", "d", "y", " ", "t", "o", " ", "a", "s", "s", "i", "s", "t", " ", "y", "o", "u", ".">>
ARROW == <<" ", "-", ">", " ">>
CATEGORY == "conversation"
\* importance 0.7, as the fraction 7/10
IMPORTANCE == <<7, 10>>
\* the slice bound of message[:50] and final_text[:50]
SLICE == 50
\* mic_index = 2
mic_index == 2

TERMINATION_WORDS ==
  { <<"g", "o", "o", "d", "b", "y", "e">>,
    <<"e", "x", "i", "t">>,
    <<"q", "u", "i", "t">>,
    <<"s", "t", "o", "p">> }

(***************************************************************************)
(* Inputs: utterances, raw typed lines, reasoner reply texts.              *)
(***************************************************************************)
Digits == <<"0", "1", "2", "3", "4", "5", "6", "7", "8", "9">>
Letters == <<"a", "b", "c", "d", "e", "f", "g", "h", "i", "j">>
U_empty == <<>>
U_weather == <<"W", "h", "a", "t", " ", "i", "s", " ", "t", "h", "e", " ", "w", "e", "a", "t", "h", "e", "r">>
\* a long utterance that starts with near misses of the termination words
U_quiet == <<"Q", "u", "i", "e", "t", " ", "s", "t", "o", "o", "p", " ", "e", "x", " ", "i", "t">>
U_long == [i \in 1..LongLen |-> IF i <= Len(U_quiet) THEN U_quiet[i] ELSE Digits[(i % 10) + 1]]
U_bye == <<"G", "o", "o", "d", "b", "y", "e", ",", " ", "I", "'", "m", " ", "d", "o", "n", "e">>
U_dontstop == <<"d", "o", "n", "'", "t", " ", "s", "t", "o", "p", " ", "m", "e">>
U_EXIT == <<"E", "X", "I", "T">>
U_quit == <<"q", "u", "i", "t">>
R_sunny == <<"I", "t", " ", "i", "s", " ", "s", "u", "n", "n", "y">>
R_long == [i \in 1..LongLen |-> Letters[(i % 10) + 1]]

\* what recognize_google() may return
Utterances == { U_empty, U_long, U_bye, U_dontstop, U_EXIT, U_quit }
\* what input() may return, before strip(): the same lines, one more question, and
\* lines with blanks around
RawInputs == Utterances \cup { U_weather, <<" ">>, <<" ">> \o U_quit \o <<" ", " ">> }
\* the reply texts a reasoner result may carry
ReplyTexts == { R_sunny, R_long, NOT_READY }
\* what Derek.think() may do: return a result with a "response" text, return a
\* result without that key, return something that is no mapping (None), raise
ThinkBehaviours ==
  { [kind |-> "text", text |-> r] : r \in ReplyTexts }
    \cup { [kind |-> "notext", text |-> <<>>],
           [kind |-> "none", text |-> <<>>],
           [kind |-> "raise", text |-> <<>>] }
CallOutcomes == { "ok", "raise" }

(***************************************************************************)
(* str.lower(), str.strip(), `word in text`, text[:n].                     *)
(***************************************************************************)
LowerMap ==
  [c \in { "A", "B", "C", "D", "E", "F", "G", "H", "I", "J", "K", "L", "M",
           "N", "O", "P", "Q", "R", "S", "T", "U", "V", "W", "X", "Y", "Z" } |->
     CASE c = "A" -> "a" [] c = "B" -> "b" [] c = "C" -> "c" [] c = "D" -> "d"
       [] c = "E" -> "e" [] c = "F" -> "f" [] c = "G" -> "g" [] c = "H" -> "h"
       [] c = "I" -> "i" [] c = "J" -> "j" [] c = "K" -> "k" [] c = "L" -> "l"
       [] c = "M" -> "m" [] c = "N" -> "n" [] c = "O" -> "o" [] c = "P" -> "p"
       [] c = "Q" -> "q" [] c = "R" -> "r" [] c = "S" -> "s" [] c = "T" -> "t"
       [] c = "U" -> "u" [] c = "V" -> "v" [] c = "W" -> "w" [] c = "X" -> "x"
       [] c = "Y" -> "y" [] c = "Z" -> "z"]

lower(s) == [i \in 1..Len(s) |-> IF s[i] \in DOMAIN LowerMap THEN LowerMap[s[i]] ELSE s[i]]

RECURSIVE lstrip(_)
lstrip(s) == IF s # <<>> /\ Head(s) = " " THEN lstrip(Tail(s)) ELSE s

RECURSIVE rstrip(_)
rstrip(s) == IF s # <<>> /\ s[Len(s)] = " " THEN rstrip(SubSeq(s, 1, Len(s) - 1)) ELSE s

strip(s) == rstrip(lstrip(s))

\* Python's `word in text` on strings: substring containment
contains(word, s) ==
  \E i \in 1..(Len(s) - Len(word) + 1) : SubSeq(s, i, i + Len(word) - 1) = word

\* s[:n] taken as an inclusive bound: one character too many
slice_inclusive(s, n) == SubSeq(s, 1, IF Len(s) < n + 1 THEN Len(s) ELSE n + 1)

\* s[:n]
slice(s, n) == SubSeq(s, 1, IF Len(s) < n THEN Len(s) ELSE n)

\* the termination test without the call of lower()
is_termination_case_sensitive(t) == \E word \in TERMINATION_WORDS : contains(word, t)

\* any(word in text.lower() for word in ["goodbye", "exit", "quit", "stop"])
is_termination(t) == \E word \in TERMINATION_WORDS : contains(word, lower(t))

(***************************************************************************)
(* State.                                                                  *)
(***************************************************************************)
VARIABLES
  pc,                    \* position in the program: "module", "construct", "start",
                         \* "mic_init", "calibrate", "loop", "finally", "done"
  ctor,                  \* environment: what each subsystem constructor does when called
  attempted,             \* the constructors that have been called
  derek_ultimate_voice,  \* module global: the voice output handle is present
  memory,                \* module global: the memory store handle is present
  self,                  \* the DerekDashboard object's handles
  mic,                   \* main's local `mic` is a device (not None)
  turns,                 \* loop iterations that continued so far
  event,                 \* what the last step of main did
  text,                  \* main's local `text`: the last acquired utterance
  think,                 \* what think() did in the last dispatched turn
  response,              \* main's local `response`: the last reply
  calls,                 \* the collaborator calls made by the last step
  stored,                \* the entries the memory store holds
  fatal,                 \* main's outer `except Exception` was entered
  stops                  \* the calls of dashboard.stop(), each with its attempts

vars == << pc, ctor, attempted, derek_ultimate_voice, memory, self, mic, turns,
           event, text, think, response, calls, stored, fatal, stops >>

Roles == { "voice", "memory", "derek", "perplexity", "memory_engine", "conversation_engine" }
\* a constructor returns a handle, raises, or its class is missing (getattr gave None)
CtorOutcomes == { "ok", "raise", "missing" }

NoSelf ==
  [derek |-> FALSE, perplexity_service |-> FALSE, memory_engine |-> FALSE,
   conversation_engine |-> FALSE, derek_ultimate_voice |-> FALSE, memory |-> FALSE,
   vision |-> FALSE]

\* think, listen, input: number of calls; store, speak, print: the calls in order
NoCalls ==
  [think |-> 0, store |-> <<>>, speak |-> <<>>, print |-> <<>>, listen |-> 0, input |-> 0]
NoThink == [kind |-> "unset", text |-> <<>>]

(***************************************************************************)
(* CORE INITIALIZATION (module level): one try block around both            *)
(* constructions; the except clause sets both handles to None.             *)
(***************************************************************************)
core_initialization(o) ==
  IF o["voice"] = "raise"
  THEN [derek_ultimate_voice |-> FALSE, memory |-> FALSE, attempted |-> { "voice" },
        raised |-> FALSE]
  ELSE LET v_called == IF o["voice"] = "ok" THEN { "voice" } ELSE {}
       IN IF o["memory"] = "raise"
          THEN [derek_ultimate_voice |-> FALSE, memory |-> FALSE,
                attempted |-> v_called \cup { "memory" }, raised |-> FALSE]
          ELSE [derek_ultimate_voice |-> (o["voice"] = "ok"),
                memory |-> (o["memory"] = "ok"),
                attempted |-> v_called \cup
                              (IF o["memory"] = "ok" THEN { "memory" } ELSE {}),
                raised |-> FALSE]

(***************************************************************************)
(* DerekDashboard.__init__: Derek(...) is called in its own try (a missing  *)
(* class makes the call raise TypeError, which that try catches); the       *)
(* other three are constructed only if the class exists, each in its own   *)
(* try.  vision stays None.                                                *)
(***************************************************************************)
\* __init__ with Derek(...) called outside a try: a constructor error or a missing
\* class (None is not callable) leaves __init__
dashboard_init_unwrapped(o, voice, mem) ==
  [self |->
     [derek |-> (o["derek"] = "ok"),
      perplexity_service |-> (o["perplexity"] = "ok"),
      memory_engine |-> (o["memory_engine"] = "ok"),
      conversation_engine |-> (o["conversation_engine"] = "ok"),
      derek_ultimate_voice |-> voice,
      memory |-> mem,
      vision |-> FALSE],
   attempted |->
     { r \in { "derek", "perplexity", "memory_engine", "conversation_engine" } :
         o[r] # "missing" },
   raised |-> (o["derek"] # "ok")]

dashboard_init(o, voice, mem) ==
  [self |->
     [derek |-> (o["derek"] = "ok"),
      perplexity_service |-> (o["perplexity"] = "ok"),
      memory_engine |-> (o["memory_engine"] = "ok"),
      conversation_engine |-> (o["conversation_engine"] = "ok"),
      derek_ultimate_voice |-> voice,
      memory |-> mem,
      vision |-> FALSE],
   attempted |->
     { r \in { "derek", "perplexity", "memory_engine", "conversation_engine" } :
         o[r] # "missing" },
   raised |-> FALSE]

(***************************************************************************)
(* DerekDashboard.process_message(message).  th is what think() does, st   *)
(* what memory.store() does, now the value of datetime.now().  The result  *)
(* records the returned text, whether an exception left the method, the    *)
(* number of think() calls, the store() calls with their outcomes and the   *)
(* entries the store accepted.                                             *)
(***************************************************************************)
memory_entry(message, final_text, now) ==
  [category |-> CATEGORY,
   content |-> slice(message, SLICE) \o ARROW \o slice(final_text, SLICE),
   importance |-> IMPORTANCE,
   metadata |-> [timestamp |-> now]]

\* process_message without the `if not self.derek` guard: think is looked up on
\* None, and the outer except answers
process_message_unguarded(slf, message, th, st, now) ==
  IF ~slf.derek \/ th.kind \in { "raise", "none" }
  THEN [ret |-> ERROR_REPLY, raised |-> FALSE, think |-> IF slf.derek THEN 1 ELSE 0,
        store |-> <<>>, persisted |-> <<>>]
  ELSE LET final_text == IF th.kind = "text" THEN th.text ELSE NO_OUTPUT
           entry == memory_entry(message, final_text, now)
       IN IF slf.memory
          THEN [ret |-> final_text, raised |-> FALSE, think |-> 1,
                store |-> << [entry |-> entry, out |-> st] >>,
                persisted |-> IF st = "ok" THEN << entry >> ELSE <<>>]
          ELSE [ret |-> final_text, raised |-> FALSE, think |-> 1,
                store |-> <<>>, persisted |-> <<>>]

\* process_message without the outer try: an error of think() leaves the method
process_message_uncaught(slf, message, th, st, now) ==
  IF ~slf.derek
  THEN [ret |-> NOT_READY, raised |-> FALSE, think |-> 0, store |-> <<>>, persisted |-> <<>>]
  ELSE IF th.kind \in { "raise", "none" }
  THEN [ret |-> <<>>, raised |-> TRUE, think |-> 1, store |-> <<>>, persisted |-> <<>>]
  ELSE LET final_text == IF th.kind = "text" THEN th.text ELSE NO_OUTPUT
           entry == memory_entry(message, final_text, now)
       IN IF slf.memory
          THEN [ret |-> final_text, raised |-> FALSE, think |-> 1,
                store |-> << [entry |-> entry, out |-> st] >>,
                persisted |-> IF st = "ok" THEN << entry >> ELSE <<>>]
          ELSE [ret |-> final_text, raised |-> FALSE, think |-> 1,
                store |-> <<>>, persisted |-> <<>>]

\* process_message without the inner try: an error of memory.store() reaches the
\* outer except, which answers with the error reply
process_message_store_uncaught(slf, message, th, st, now) ==
  IF ~slf.derek
  THEN [ret |-> NOT_READY, raised |-> FALSE, think |-> 0, store |-> <<>>, persisted |-> <<>>]
  ELSE IF th.kind \in { "raise", "none" }
  THEN [ret |-> ERROR_REPLY, raised |-> FALSE, think |-> 1, store |-> <<>>, persisted |-> <<>>]
  ELSE LET final_text == IF th.kind = "text" THEN th.text ELSE NO_OUTPUT
           entry == memory_entry(message, final_text, now)
       IN IF slf.memory
          THEN [ret |-> IF st = "ok" THEN final_text ELSE ERROR_REPLY,
                raised |-> FALSE, think |-> 1,
                store |-> << [entry |-> entry, out |-> st] >>,
                persisted |-> IF st = "ok" THEN << entry >> ELSE <<>>]
          ELSE [ret |-> final_text, raised |-> FALSE, think |-> 1,
                store |-> <<>>, persisted |-> <<>>]

\* process_message that records the exchange before it looks at the reasoner:
\* with the reasoner absent the 'not ready' reply is stored too
process_message_store_first(slf, message, th, st, now) ==
  IF ~slf.derek
  THEN LET e0 == memory_entry(message, NOT_READY, now)
       IN [ret |-> NOT_READY, raised |-> FALSE, think |-> 0,
           store |-> IF slf.memory THEN << [entry |-> e0, out |-> st] >> ELSE <<>>,
           persisted |-> IF slf.memory /\ st = "ok" THEN << e0 >> ELSE <<>>]
  ELSE IF th.kind \in { "raise", "none" }
  THEN [ret |-> ERROR_REPLY, raised |-> FALSE, think |-> 1, store |-> <<>>, persisted |-> <<>>]
  ELSE LET final_text == IF th.kind = "text" THEN th.text ELSE NO_OUTPUT
           entry == memory_entry(message, final_text, now)
       IN IF slf.memory
          THEN [ret |-> final_text, raised |-> FALSE, think |-> 1,
                store |-> << [entry |-> entry, out |-> st] >>,
                persisted |-> IF st = "ok" THEN << entry >> ELSE <<>>]
          ELSE [ret |-> final_text, raised |-> FALSE, think |-> 1,
                store |-> <<>>, persisted |-> <<>>]

\* process_message with the store call outside every try: an error of
\* memory.store() leaves the method
process_message_store_escapes(slf, message, th, st, now) ==
  IF ~slf.derek
  THEN [ret |-> NOT_READY, raised |-> FALSE, think |-> 0, store |-> <<>>, persisted |-> <<>>]
  ELSE IF th.kind \in { "raise", "none" }
  THEN [ret |-> ERROR_REPLY, raised |-> FALSE, think |-> 1, store |-> <<>>, persisted |-> <<>>]
  ELSE LET final_text == IF th.kind = "text" THEN th.text ELSE NO_OUTPUT
           entry == memory_entry(message, final_text, now)
       IN IF slf.memory
          THEN [ret |-> final_text, raised |-> (st = "raise"), think |-> 1,
                store |-> << [entry |-> entry, out |-> st] >>,
                persisted |-> IF st = "ok" THEN << entry >> ELSE <<>>]
          ELSE [ret |-> final_text, raised |-> FALSE, think |-> 1,
                store |-> <<>>, persisted |-> <<>>]

\* process_message that calls store() a second time when the first call raised
process_message_store_retry(slf, message, th, st, now) ==
  IF ~slf.derek
  THEN [ret |-> NOT_READY, raised |-> FALSE, think |-> 0, store |-> <<>>, persisted |-> <<>>]
  ELSE IF th.kind \in { "raise", "none" }
  THEN [ret |-> ERROR_REPLY, raised |-> FALSE, think |-> 1, store |-> <<>>, persisted |-> <<>>]
  ELSE LET final_text == IF th.kind = "text" THEN th.text ELSE NO_OUTPUT
           entry == memory_entry(message, final_text, now)
       IN IF slf.memory
          THEN [ret |-> final_text, raised |-> FALSE, think |-> 1,
                store |-> IF st = "ok"
                          THEN << [entry |-> entry, out |-> "ok"] >>
                          ELSE << [entry |-> entry, out |-> "raise"],
                                  [entry |-> entry, out |-> "ok"] >>,
                persisted |-> << entry >>]
          ELSE [ret |-> final_text, raised |-> FALSE, think |-> 1,
                store |-> <<>>, persisted |-> <<>>]

\* process_message that records the exchange in the outer except too: the error
\* reply is stored when think() raised
process_message_store_on_error(slf, message, th, st, now) ==
  IF ~slf.derek
  THEN [ret |-> NOT_READY, raised |-> FALSE, think |-> 0, store |-> <<>>, persisted |-> <<>>]
  ELSE IF th.kind \in { "raise", "none" }
  THEN LET e1 == memory_entry(message, ERROR_REPLY, now)
       IN [ret |-> ERROR_REPLY, raised |-> FALSE, think |-> 1,
           store |-> IF slf.memory THEN << [entry |-> e1, out |-> st] >> ELSE <<>>,
           persisted |-> IF slf.memory /\ st = "ok" THEN << e1 >> ELSE <<>>]
  ELSE LET final_text == IF th.kind = "text" THEN th.text ELSE NO_OUTPUT
           entry == memory_entry(message, final_text, now)
       IN IF slf.memory
          THEN [ret |-> final_text, raised |-> FALSE, think |-> 1,
                store |-> << [entry |-> entry, out |-> st] >>,
                persisted |-> IF st = "ok" THEN << entry >> ELSE <<>>]
          ELSE [ret |-> final_text, raised |-> FALSE, think |-> 1,
                store |-> <<>>, persisted |-> <<>>]

process_message(slf, message, th, st, now) ==
  IF ~slf.derek
  THEN [ret |-> NOT_READY, raised |-> FALSE, think |-> 0, store |-> <<>>, persisted |-> <<>>]
  ELSE IF th.kind \in { "raise", "none" }
  \* think() raised, or response.get raised on a result that is no mapping
  THEN [ret |-> ERROR_REPLY, raised |-> FALSE, think |-> 1, store |-> <<>>, persisted |-> <<>>]
  ELSE LET final_text == IF th.kind = "text" THEN th.text ELSE NO_OUTPUT
           entry == memory_entry(message, final_text, now)
       IN IF slf.memory
          THEN [ret |-> final_text, raised |-> FALSE, think |-> 1,
                store |-> << [entry |-> entry, out |-> st] >>,
                persisted |-> IF st = "ok" THEN << entry >> ELSE <<>>]
          ELSE [ret |-> final_text, raised |-> FALSE, think |-> 1,
                store |-> <<>>, persisted |-> <<>>]

(***************************************************************************)
(* DerekDashboard.stop(): one try block around the three calls, so the      *)
(* first call that raises ends the block.  The result lists the calls      *)
(* that were made.                                                         *)
(***************************************************************************)
\* stop() without its try: the first call that raises leaves the method
stop_unwrapped(slf, engine_out, memory_out, vision_out) ==
  LET a1 == IF slf.memory_engine THEN << "memory_engine.save" >> ELSE <<>>
      go2 == ~(slf.memory_engine /\ engine_out = "raise")
      a2 == IF go2 /\ slf.memory THEN << "memory.save" >> ELSE <<>>
      go3 == go2 /\ ~(slf.memory /\ memory_out = "raise")
      a3 == IF go3 /\ slf.vision THEN << "vision.stop" >> ELSE <<>>
  IN [attempts |-> a1 \o a2 \o a3,
      raised |-> ~go3 \/ (slf.vision /\ vision_out = "raise")]

stop(slf, engine_out, memory_out, vision_out) ==
  LET a1 == IF slf.memory_engine THEN << "memory_engine.save" >> ELSE <<>>
      go2 == ~(slf.memory_engine /\ engine_out = "raise")
      a2 == IF go2 /\ slf.memory THEN << "memory.save" >> ELSE <<>>
      go3 == go2 /\ ~(slf.memory /\ memory_out = "raise")
      a3 == IF go3 /\ slf.vision THEN << "vision.stop" >> ELSE <<>>
  IN [attempts |-> a1 \o a2 \o a3, raised |-> FALSE]

(***************************************************************************)
(* Initialization as steps (specification InitSpec).                        *)
(***************************************************************************)
InitModule ==
  /\ pc = "module"
  /\ ctor \in [Roles -> CtorOutcomes]
  /\ attempted = {}
  /\ derek_ultimate_voice = FALSE
  /\ memory = FALSE
  /\ self = NoSelf
  /\ mic = FALSE
  /\ turns = 0
  /\ event = "none"
  /\ text = <<>>
  /\ think = NoThink
  /\ response = <<>>
  /\ calls = NoCalls
  /\ stored = <<>>
  /\ fatal = FALSE
  /\ stops = <<>>

\* src/main.py 86-92
CoreInitialization ==
  /\ pc = "module"
  /\ LET c == core_initialization(ctor)
     IN /\ derek_ultimate_voice' = c.derek_ultimate_voice
        /\ memory' = c.memory
        /\ attempted' = c.attempted
        \* an error that left the module level would end the import of the program
        /\ pc' = IF c.raised THEN "crashed" ELSE "construct"
  /\ event' = "core_initialization"
  /\ UNCHANGED << ctor, self, mic, turns, text, think, response, calls, stored, fatal, stops >>

\* main: dashboard = DerekDashboard().  An error that left __init__ would reach
\* main's except with dashboard still None, so that finally calls no stop().
Construct ==
  /\ pc = "construct"
  /\ LET d == dashboard_init(ctor, derek_ultimate_voice, memory)
     IN /\ attempted' = attempted \cup d.attempted
        /\ IF d.raised
           THEN /\ self' = self
                /\ fatal' = TRUE
                /\ pc' = "done"
           ELSE /\ self' = d.self
                /\ fatal' = fatal
                /\ pc' = "start"
  /\ event' = "construct"
  /\ UNCHANGED << ctor, derek_ultimate_voice, memory, mic, turns, text, think, response,
                  calls, stored, stops >>

NextInit == CoreInitialization \/ Construct

InitSpec == InitModule /\ [][NextInit]_vars

(***************************************************************************)
(* main() after the dashboard is constructed (specification Spec).  Its    *)
(* initial states are states initialization ends in: one constructor       *)
(* behaviour for each combination of the handles main() reads (derek,      *)
(* voice, memory, memory_engine).  perplexity_service and                  *)
(* conversation_engine, which main() never reads, are present in half of   *)
(* them.  InitSpec covers every constructor behaviour.                     *)
(***************************************************************************)
MainCtorCases ==
  { o \in [Roles -> CtorOutcomes] :
      /\ o["derek"] \in { "ok", "raise" }
      /\ o["memory_engine"] \in { "ok", "raise" }
      /\ o["perplexity"] = o["derek"]
      /\ o["conversation_engine"] = o["memory_engine"]
      /\ << o["voice"], o["memory"] >> \in
           { << "ok", "ok" >>, << "ok", "missing" >>, << "missing", "ok" >>,
             << "raise", "ok" >> } }

InitMain ==
  /\ pc = "start"
  /\ ctor \in MainCtorCases
  /\ LET c == core_initialization(ctor)
         d == dashboard_init(ctor, c.derek_ultimate_voice, c.memory)
     IN /\ derek_ultimate_voice = c.derek_ultimate_voice
        /\ memory = c.memory
        /\ self = d.self
        /\ attempted = c.attempted \cup d.attempted
  /\ mic = FALSE
  /\ turns = 0
  /\ event = "construct"
  /\ text = <<>>
  /\ think = NoThink
  /\ response = <<>>
  /\ calls = NoCalls
  /\ stored = <<>>
  /\ fatal = FALSE
  /\ stops = <<>>

\* DerekDashboard.start(): the greeting is spoken inside a try, and only if the
\* voice handle has a speak attribute
Start ==
  /\ pc = "start"
  /\ \E out \in { "ok", "raise", "noattr" } :
       calls' = [NoCalls EXCEPT !.speak =
                   IF self.derek_ultimate_voice /\ out # "noattr"
                   THEN << [text |-> GREETING, out |-> out] >>
                   ELSE <<>>]
  /\ pc' = "mic_init"
  /\ event' = "start"
  /\ UNCHANGED << ctor, attempted, derek_ultimate_voice, memory, self, mic, turns, text,
                  think, response, stored, fatal, stops >>

\* main 202-214: import speech_recognition and Recognizer() are outside the inner
\* try; listing the devices, Microphone(device_index=2) and mic_list[2] are inside
\* the except clause of lines 212-214 without `mic = None`: the device assigned at
\* line 210 stays in mic when mic_list[mic_index] raises at line 211
MicInit_keeping_device ==
  /\ pc = "mic_init"
  /\ \E import_out \in CallOutcomes, list_out \in CallOutcomes,
        device_out \in CallOutcomes, n \in 0..MaxMics :
       IF import_out = "raise"
       THEN /\ fatal' = TRUE
            /\ pc' = "finally"
            /\ event' = "import_failed"
            /\ mic' = FALSE
       ELSE LET failed == list_out = "raise" \/ device_out = "raise" \/ ~(mic_index < n)
            IN /\ mic' = (list_out = "ok" /\ device_out = "ok")
               /\ fatal' = fatal
               /\ pc' = "calibrate"
               /\ event' = IF failed THEN "mic_init_failed" ELSE "mic_init"
  /\ calls' = NoCalls
  /\ UNCHANGED << ctor, attempted, derek_ultimate_voice, memory, self, turns, text, think,
                  response, stored, stops >>

\* main 202-214 (see above).  The initialization fails when listing raises, when
\* Microphone(device_index=2) raises, or when mic_list[2] does not exist; the
\* except clause then sets mic to None.
MicInit ==
  /\ pc = "mic_init"
  /\ \E import_out \in CallOutcomes, list_out \in CallOutcomes,
        device_out \in CallOutcomes, n \in 0..MaxMics :
       IF import_out = "raise"
       THEN /\ fatal' = TRUE
            /\ pc' = "finally"
            /\ event' = "import_failed"
            /\ mic' = FALSE
       ELSE LET failed == list_out = "raise" \/ device_out = "raise" \/ ~(mic_index < n)
            IN /\ mic' = ~failed
               /\ fatal' = fatal
               /\ pc' = "calibrate"
               /\ event' = IF failed THEN "mic_init_failed" ELSE "mic_init"
  /\ calls' = NoCalls
  /\ UNCHANGED << ctor, attempted, derek_ultimate_voice, memory, self, turns, text, think,
                  response, stored, stops >>

\* main 216-222: calibration is not inside a try of its own
Calibrate ==
  /\ pc = "calibrate"
  /\ \E out \in CallOutcomes :
       IF mic /\ out = "raise"
       THEN /\ fatal' = TRUE
            /\ pc' = "finally"
            /\ event' = "calibration_failed"
       ELSE /\ fatal' = fatal
            /\ pc' = "loop"
            /\ event' = "calibrated"
  /\ calls' = NoCalls
  /\ UNCHANGED << ctor, attempted, derek_ultimate_voice, memory, self, mic, turns, text,
                  think, response, stored, stops >>

\* main 226-228: recognizer.listen(...) raises (the wait timed out, the device
\* failed); the call is outside the try of line 229
ListenFail ==
  /\ pc = "loop"
  /\ mic
  /\ fatal' = TRUE
  /\ pc' = "finally"
  /\ event' = "capture_failed"
  /\ calls' = [NoCalls EXCEPT !.listen = 1]
  /\ UNCHANGED << ctor, attempted, derek_ultimate_voice, memory, self, mic, turns, text,
                  think, response, stored, stops >>

\* main 229-234: recognize_google raises: print and continue
RecognizeFail ==
  /\ pc = "loop"
  /\ mic
  /\ turns < MaxTurns
  /\ turns' = turns + 1
  /\ pc' = "loop"
  /\ event' = "recognition_failed"
  /\ calls' = [NoCalls EXCEPT !.listen = 1]
  /\ UNCHANGED << ctor, attempted, derek_ultimate_voice, memory, self, mic, text, think,
                  response, stored, fatal, stops >>

\* main 236: input() raises (end of input)
InputFail ==
  /\ pc = "loop"
  /\ ~mic
  /\ fatal' = TRUE
  /\ pc' = "finally"
  /\ event' = "input_failed"
  /\ calls' = [NoCalls EXCEPT !.input = 1]
  /\ UNCHANGED << ctor, attempted, derek_ultimate_voice, memory, self, mic, turns, text,
                  think, response, stored, stops >>

\* the calls that acquire an utterance: listen() with a microphone, input() without
AcquireCalls ==
  [NoCalls EXCEPT !.listen = IF mic THEN 1 ELSE 0, !.input = IF mic THEN 0 ELSE 1]

\* the utterances line 230 or line 236 can assign to text
Acquired == IF mic THEN Utterances ELSE { strip(raw) : raw \in RawInputs }

\* the termination branch without its break: the loop goes on after the farewell
Farewell_without_break ==
  /\ pc = "loop"
  /\ \E u \in Acquired, out \in CallOutcomes :
       /\ is_termination(u)
       /\ text' = u
       /\ calls' = [AcquireCalls EXCEPT
                      !.print = << FAREWELL >>,
                      !.speak = IF self.derek_ultimate_voice
                                THEN << [text |-> FAREWELL, out |-> out] >>
                                ELSE <<>>]
       /\ fatal' = (self.derek_ultimate_voice /\ out = "raise")
       /\ pc' = IF self.derek_ultimate_voice /\ out = "raise" THEN "finally" ELSE "loop"
  /\ event' = "farewell"
  /\ UNCHANGED << ctor, attempted, derek_ultimate_voice, memory, self, mic, turns, think,
                  response, stored, stops >>

\* main 238-243: a termination word: print the farewell, speak it if the voice
\* handle is present (no try around it), break
Farewell ==
  /\ pc = "loop"
  /\ \E u \in Acquired, out \in CallOutcomes :
       /\ is_termination(u)
       /\ text' = u
       /\ calls' = [AcquireCalls EXCEPT
                      !.print = << FAREWELL >>,
                      !.speak = IF self.derek_ultimate_voice
                                THEN << [text |-> FAREWELL, out |-> out] >>
                                ELSE <<>>]
       /\ fatal' = (self.derek_ultimate_voice /\ out = "raise")
  /\ pc' = "finally"
  /\ event' = "farewell"
  /\ UNCHANGED << ctor, attempted, derek_ultimate_voice, memory, self, mic, turns, think,
                  response, stored, stops >>

\* a turn that drops the reasoner handle after think() failed
Turn_dropping_reasoner ==
  /\ pc = "loop"
  /\ turns < MaxTurns
  /\ \E u \in Acquired, th \in ThinkBehaviours, st \in CallOutcomes :
       /\ ~is_termination(u)
       /\ LET r == process_message(self, u, th, st, turns)
          IN /\ text' = u
             /\ think' = IF r.think > 0 THEN th ELSE NoThink
             /\ stored' = stored \o r.persisted
             /\ self' = IF r.think > 0 /\ th.kind = "raise"
                        THEN [self EXCEPT !.derek = FALSE]
                        ELSE self
             /\ fatal' = fatal
             /\ pc' = "loop"
             /\ response' = r.ret
             /\ calls' = [AcquireCalls EXCEPT !.think = r.think, !.store = r.store,
                                              !.print = << r.ret >>]
  /\ turns' = turns + 1
  /\ event' = "turn"
  /\ UNCHANGED << ctor, attempted, derek_ultimate_voice, memory, mic, stops >>

\* main 245-246: dispatch to process_message and print the reply
Turn ==
  /\ pc = "loop"
  /\ turns < MaxTurns
  /\ \E u \in Acquired, th \in ThinkBehaviours, st \in CallOutcomes :
       /\ ~is_termination(u)
       /\ LET r == process_message(self, u, th, st, turns)
          IN /\ text' = u
             /\ think' = IF r.think > 0 THEN th ELSE NoThink
             /\ stored' = stored \o r.persisted
             /\ IF r.raised
                THEN /\ fatal' = TRUE
                     /\ pc' = "finally"
                     /\ response' = response
                     /\ calls' = [AcquireCalls EXCEPT !.think = r.think, !.store = r.store]
                ELSE /\ fatal' = fatal
                     /\ pc' = "loop"
                     /\ response' = r.ret
                     /\ calls' = [AcquireCalls EXCEPT !.think = r.think, !.store = r.store,
                                                 !.print = << r.ret >>]
  /\ turns' = turns + 1
  /\ event' = "turn"
  /\ UNCHANGED << ctor, attempted, derek_ultimate_voice, memory, self, mic, stops >>

\* stop() placed after the loop instead of in finally: not reached after an error
Finally_not_after_error ==
  /\ pc = "finally"
  /\ \E engine_out \in CallOutcomes, memory_out \in CallOutcomes, vision_out \in CallOutcomes :
       LET s == stop(self, engine_out, memory_out, vision_out)
       IN /\ stops' = IF fatal THEN stops ELSE Append(stops, s)
          /\ pc' = IF ~fatal /\ s.raised THEN "crashed" ELSE "done"
  /\ event' = "stop"
  /\ calls' = NoCalls
  /\ UNCHANGED << ctor, attempted, derek_ultimate_voice, memory, self, mic, turns, text,
                  think, response, stored, fatal >>

\* main 250-252: finally: dashboard.stop(); an error that left stop() would leave
\* main
Finally ==
  /\ pc = "finally"
  /\ \E engine_out \in CallOutcomes, memory_out \in CallOutcomes, vision_out \in CallOutcomes :
       LET s == stop(self, engine_out, memory_out, vision_out)
       IN /\ stops' = Append(stops, s)
          /\ pc' = IF s.raised THEN "crashed" ELSE "done"
  /\ event' = "stop"
  /\ calls' = NoCalls
  /\ UNCHANGED << ctor, attempted, derek_ultimate_voice, memory, self, mic, turns, text,
                  think, response, stored, fatal >>

Next ==
  \/ Start
  \/ MicInit
  \/ Calibrate
  \/ ListenFail
  \/ RecognizeFail
  \/ InputFail
  \/ Farewell
  \/ Turn
  \/ Finally

Spec == InitMain /\ [][Next]_vars

(***************************************************************************)
(* The loop in text-input mode under the assumptions of a terminating      *)
(* session (specification LiveSpec).  Its initial states are the states in *)
(* which main() enters the loop without a microphone (after start(), a     *)
(* failed microphone initialization and the skipped calibration).  stop()  *)
(* returns or raises in finite time (weak fairness of Finally), and the    *)
(* user eventually types a line with a termination word (weak fairness of  *)
(* the farewell iteration).  Nothing is assumed about the turns dispatched *)
(* before that.                                                            *)
(***************************************************************************)
InitLive ==
  /\ pc = "loop"
  /\ ctor \in MainCtorCases
  /\ LET c == core_initialization(ctor)
         d == dashboard_init(ctor, c.derek_ultimate_voice, c.memory)
     IN /\ derek_ultimate_voice = c.derek_ultimate_voice
        /\ memory = c.memory
        /\ self = d.self
        /\ attempted = c.attempted \cup d.attempted
  /\ mic = FALSE
  /\ turns = 0
  /\ event = "calibrated"
  /\ text = <<>>
  /\ think = NoThink
  /\ response = <<>>
  /\ calls = NoCalls
  /\ stored = <<>>
  /\ fatal = FALSE
  /\ stops = <<>>

NextLive ==
  \/ InputFail
  \/ Farewell
  \/ Turn
  \/ Finally

LiveSpec ==
  /\ InitLive
  /\ [][NextLive]_vars
  /\ WF_vars(Finally)
  /\ WF_vars(Farewell)

(***************************************************************************)
(* Properties.                                                             *)
(***************************************************************************)
Range(q) == { q[i] : i \in DOMAIN q }

\* the handle of a role, after initialization
Present(r) ==
  CASE r = "derek" -> self.derek
    [] r = "memory" -> self.memory
    [] r = "perplexity" -> self.perplexity_service
    [] r = "voice" -> self.derek_ultimate_voice
    [] r = "memory_engine" -> self.memory_engine
    [] r = "conversation_engine" -> self.conversation_engine

\* the four roles of the registry: reasoner, memory, knowledge lookup, voice output
RegistryRoles == { "derek", "memory", "perplexity", "voice" }

\* C1: when initialization has ended, every registry role whose constructor
\* raises is absent, and every registry role whose constructor succeeds was
\* constructed and is present, whatever the other constructors did.
C1_InitIsolation ==
  pc = "start" =>
    \A r \in RegistryRoles :
      /\ ctor[r] = "raise" => ~Present(r)
      /\ ctor[r] = "ok" => (r \in attempted /\ Present(r))

\* C2 as stated: after a dispatched turn the reply is the 'system not ready'
\* text if and only if the reasoner handle is absent.
C2_NotReadyIffAbsent ==
  event = "turn" => (response = NOT_READY <=> ~self.derek)

\* C2 as amended: after a dispatched turn the reply is the 'system not ready' text
\* if the reasoner handle is absent; with the reasoner present it is that text
\* only when the reasoner's own result carries it as its reply text.
C2_NotReady ==
  event = "turn" =>
    (response = NOT_READY <=>
       (~self.derek \/ (think.kind = "text" /\ think.text = NOT_READY)))

\* C2 witness: the empty utterance dispatched with the reasoner absent
C2_Witness ==
  event = "turn" /\ ~self.derek /\ text = <<>> /\ response = NOT_READY

\* C3: a dispatched turn with the reasoner present never raises (the loop goes on,
\* no fatal error) and prints exactly one reply: the reasoner's reply text, the
\* placeholder when the result has no text, the error reply when think raised;
\* whether memory is absent, stores or raises.
C3_OneReply ==
  (event = "turn" /\ self.derek) =>
    /\ pc = "loop"
    /\ ~fatal
    /\ calls.print = << response >>
    /\ think.kind = "text" => response = think.text
    /\ think.kind = "notext" => response = NO_OUTPUT
    /\ think.kind = "raise" => response = ERROR_REPLY

\* C3 witness: think raised in a turn (memory present)
C3_Witness ==
  /\ event = "turn"
  /\ self.derek
  /\ self.memory
  /\ think.kind = "raise"
  /\ response = ERROR_REPLY
  /\ pc = "loop"

\* C4: the reply of a dispatched turn is the reply process_message gives for the
\* same utterance and the same reasoner behaviour with memory absent, with a
\* memory store that succeeds, and with a memory store whose store() raises.
C4_StoreInvisible ==
  event = "turn" =>
    LET absent == [self EXCEPT !.memory = FALSE]
        present == [self EXCEPT !.memory = TRUE]
    IN /\ response = process_message(absent, text, think, "ok", turns - 1).ret
       /\ response = process_message(present, text, think, "ok", turns - 1).ret
       /\ response = process_message(present, text, think, "raise", turns - 1).ret

\* C4 witness: store() raised in a turn whose reply is the reasoner's text
C4_Witness ==
  /\ event = "turn"
  /\ think.kind = "text"
  /\ Len(calls.store) = 1
  /\ calls.store[1].out = "raise"
  /\ response = think.text

\* C5: when stop() has run, it has attempted the save/stop call of every stateful
\* subsystem that is present.
C5_StopAttemptsAll ==
  pc = "done" =>
    /\ Len(stops) = 1
    /\ self.memory_engine => "memory_engine.save" \in Range(stops[1].attempts)
    /\ self.memory => "memory.save" \in Range(stops[1].attempts)
    /\ self.vision => "vision.stop" \in Range(stops[1].attempts)

\* C6: after a capture failure or a recognition failure the loop is listening
\* again: it has not ended, nothing was dispatched.
C6_FailuresRelisten ==
  event \in { "capture_failed", "recognition_failed" } =>
    /\ pc = "loop"
    /\ ~fatal
    /\ calls.think = 0

\* the lower-cased utterance contains a termination word
C7_HasWord ==
  \E w \in { <<"g", "o", "o", "d", "b", "y", "e">>, <<"e", "x", "i", "t">>,
             <<"q", "u", "i", "t">>, <<"s", "t", "o", "p">> } :
    \E i \in 1..Len(text) :
      /\ i + Len(w) - 1 <= Len(text)
      /\ \A k \in 1..Len(w) : lower(<< text[i + k - 1] >>) = << w[k] >>

\* C7: an acquired utterance whose lower-cased form contains a termination word
\* ends the loop with the farewell printed, no think() call and no store() call,
\* and the memory contents unchanged; an acquired utterance that contains none is
\* dispatched and the loop goes on.
C7_TerminationWords ==
  /\ [](event \in { "farewell", "turn" } => (event = "farewell" <=> C7_HasWord))
  /\ [](event = "farewell" =>
          /\ pc = "finally"
          /\ calls.print = << FAREWELL >>
          /\ calls.think = 0
          /\ calls.store = <<>>)
  /\ [](event = "turn" => (pc = "loop" /\ calls.print = << response >>))
  /\ [][event' = "farewell" => stored' = stored]_vars

\* C7 witness: "Goodbye, I'm done" after a stored turn, reasoner and memory present
C7_Witness ==
  /\ event = "farewell"
  /\ text = U_bye
  /\ self.derek
  /\ self.memory
  /\ Len(stored) = 1
  /\ pc = "finally"

\* C8: after a dispatched turn the reply was printed and, when the voice handle
\* is present, passed to speak.
C8_ReplySpoken ==
  event = "turn" =>
    /\ calls.print = << response >>
    /\ self.derek_ultimate_voice => \E i \in DOMAIN calls.speak : calls.speak[i].text = response

\* C9: a speak call that raises (greeting or farewell) is never a fatal error.
C9_SpeakFailureIgnored ==
  (\E i \in DOMAIN calls.speak : calls.speak[i].out = "raise") => ~fatal

\* C10: a turn in which the reasoner returned reply text r for utterance u, with
\* memory present, returns r and calls store() once, with category
\* "conversation", importance 0.7 and the content u[:50] -> r[:50]; an accepted
\* entry is the newest one of the store.
C10_StoredEntry ==
  (event = "turn" /\ self.derek /\ self.memory /\ think.kind = "text") =>
    /\ response = think.text
    /\ Len(calls.store) = 1
    /\ LET e == calls.store[1].entry
           u50 == [i \in 1..(IF Len(text) <= 50 THEN Len(text) ELSE 50) |-> text[i]]
           r50 == [i \in 1..(IF Len(think.text) <= 50 THEN Len(think.text) ELSE 50) |->
                     think.text[i]]
       IN /\ e.category = "conversation"
          /\ e.importance = << 7, 10 >>
          /\ e.content = u50 \o << " ", "-", ">", " " >> \o r50
          /\ calls.store[1].out = "ok" => (stored # <<>> /\ stored[Len(stored)] = e)

\* C10 witness: the long utterance answered with the long reply, both cut at 50
C10_Witness ==
  /\ event = "turn"
  /\ text = U_long
  /\ think = [kind |-> "text", text |-> R_long]
  /\ Len(calls.store) = 1
  /\ Len(calls.store[1].entry.content) = 104
  /\ response = R_long

\* C11: stop() has been called exactly once when main has ended, whatever ended
\* the loop (a termination word or an error that reached main's except), and
\* it has not been called at any earlier position.
C11_StopOnce ==
  /\ pc = "done" => Len(stops) = 1
  /\ pc # "done" => stops = <<>>
  /\ pc = "finally" => event \in { "farewell", "import_failed", "calibration_failed",
                                  "capture_failed", "input_failed" }

\* C11 witness: main has ended after a speak error in the farewell, stop() called once
C11_Witness ==
  /\ pc = "done"
  /\ fatal
  /\ text = U_quit
  /\ Len(stops) = 1
  /\ turns = 1

\* C12: initialization never raises: whatever the constructors do (succeed,
\* raise, class missing), the module-level initialization and __init__ end
\* normally, with no fatal error, at the start of the dashboard.
C12_InitNeverRaises ==
  /\ pc \in { "module", "construct", "start" }
  /\ ~fatal
  /\ pc = "start" => (event = "construct" /\ attempted \subseteq Roles)

\* C12 witness: initialization has ended with the Derek class missing and the
\* other constructors raising
C12_Witness ==
  /\ pc = "start"
  /\ ctor["derek"] = "missing"
  /\ \A r \in Roles \ { "derek" } : ctor[r] = "raise"
  /\ ~self.derek

\* C15: stop() never raises: main ends normally after stop(), whichever
\* subsystems are present and whichever of their save/stop calls raise.
C15_StopNeverRaises ==
  /\ pc # "crashed"
  /\ \A i \in DOMAIN stops : ~stops[i].raised

\* C15 witness: main has ended although memory_engine.save() raised in stop()
C15_Witness ==
  /\ pc = "done"
  /\ self.memory_engine
  /\ self.memory
  /\ stops = << [attempts |-> << "memory_engine.save" >>, raised |-> FALSE] >>

\* C13: a turn dispatched with the reasoner absent answers 'not ready' with no
\* think() call and no store() call; with the reasoner absent the memory store
\* holds no entry at any time, memory handle present or not.
C13_AbsentReasonerNoMemory ==
  ~self.derek =>
    /\ stored = <<>>
    /\ event = "turn" => (response = NOT_READY /\ calls.think = 0 /\ calls.store = <<>>)

\* C13 witness: the second turn with the reasoner absent and memory present
C13_Witness ==
  /\ event = "turn"
  /\ turns = 2
  /\ ~self.derek
  /\ self.memory
  /\ response = NOT_READY
  /\ stored = <<>>

\* C14: after every dispatched turn, whatever think() and store() did, one reply
\* was printed, the loop is listening again, no fatal error occurred and stop()
\* has not been called.
C14_TurnNeverEndsLoop ==
  event = "turn" =>
    /\ pc = "loop"
    /\ ~fatal
    /\ Len(calls.print) = 1
    /\ stops = <<>>

\* C14 witness: a turn in which store() raised after a result without text
C14_Witness ==
  /\ event = "turn"
  /\ think.kind = "notext"
  /\ Len(calls.store) = 1
  /\ calls.store[1].out = "raise"
  /\ pc = "loop"
  /\ ~fatal

\* C16: a dispatched turn calls think() at most once and store() at most once (a
\* call that raised is not repeated), and when the turn has ended (before the
\* next utterance is acquired) an accepted entry is already the newest one of
\* the store; the store never holds more entries than turns were dispatched.
C16_NoRetry ==
  /\ Len(stored) <= turns
  /\ event = "turn" =>
       /\ calls.think <= 1
       /\ Len(calls.store) <= 1
       /\ calls.listen + calls.input = 1
       /\ \A i \in DOMAIN calls.store :
            calls.store[i].out = "ok" =>
              (stored # <<>> /\ stored[Len(stored)] = calls.store[i].entry)

\* C16 witness: a second turn whose store() raised once, after a first turn that
\* was stored
C16_Witness ==
  /\ event = "turn"
  /\ turns = 2
  /\ Len(stored) = 1
  /\ calls.think = 1
  /\ Len(calls.store) = 1
  /\ calls.store[1].out = "raise"

\* C17: from the start of the dashboard on, no step of main (start, microphone
\* set-up, loop iteration with any failure, shutdown) changes which handles
\* are present.
C17_RegistryReadOnly ==
  [][/\ self' = self
     /\ derek_ultimate_voice' = derek_ultimate_voice
     /\ memory' = memory]_vars

\* C17 witness: the registry is complete after a turn in which think() raised
C17_Witness ==
  /\ event = "turn"
  /\ think.kind = "raise"
  /\ self.derek
  /\ self.memory
  /\ self.derek_ultimate_voice
  /\ self.memory_engine

\* C18: a failed microphone initialization lets no error escape and leaves no
\* device; without a device no step calls listen() or calibrates, and every
\* utterance is acquired by one input() call.
C18_MicFallback ==
  /\ event = "mic_init_failed" => (~mic /\ pc = "calibrate" /\ ~fatal)
  /\ event = "mic_init" => mic
  /\ ~mic =>
       /\ calls.listen = 0
       /\ event \notin { "calibration_failed", "capture_failed", "recognition_failed" }
       /\ event \in { "turn", "farewell" } => calls.input = 1

\* C18 witness: an utterance typed and dispatched after the microphone failed
C18_Witness ==
  /\ event = "turn"
  /\ ~mic
  /\ text = U_weather
  /\ calls.input = 1
  /\ calls.listen = 0
  /\ pc = "loop"

\* C19: a turn in which think() raised makes no store() call; a store() call is
\* made only in a turn whose reasoner returned a result, and the store gains
\* entries only in such a turn, one at a time.
C19_StoreOnlyAfterResult ==
  /\ []((event = "turn" /\ think.kind \in { "raise", "none" }) => calls.store = <<>>)
  /\ []((event = "turn" /\ calls.store # <<>>) => think.kind \in { "text", "notext" })
  /\ [][stored' # stored =>
          /\ event' = "turn"
          /\ think'.kind \in { "text", "notext" }
          /\ Len(stored') = Len(stored) + 1]_vars

\* C19 witness: think() raised in the second turn, memory present, nothing stored
\* by it
C19_Witness ==
  /\ event = "turn"
  /\ turns = 2
  /\ self.memory
  /\ think.kind = "raise"
  /\ calls.store = <<>>
  /\ Len(stored) = 1

\* C20: in text-input mode, once the loop is entered, main eventually ends with
\* stop() completed, whatever think(), store() and speak() did on the way.
C20_TextModeTerminates ==
  (pc = "loop" /\ ~mic) ~> (pc = "done" /\ Len(stops) = 1)

\* C20 witness: main has ended in text-input mode after a turn whose think()
\* raised, a turn whose store() raised before it, and a farewell whose speak() raised
C20_Witness ==
  /\ pc = "done"
  /\ ~mic
  /\ turns = 2
  /\ think.kind = "raise"
  /\ self.memory
  /\ stored = <<>>
  /\ event = "stop"
  /\ fatal
  /\ text \in { U_bye, U_dontstop, U_EXIT, U_quit }
  /\ Len(stops) = 1

====
